---- MODULE Spec2Model ----
(***************************************************************************)
(* Model of the status-line crate (src/src/lib.rs).                        *)
(*                                                                         *)
(* Two threads share State { data, visible } through an Arc:               *)
(*   "fg"  the thread that owns the StatusLine handle: with_options,       *)
(*         refresh, set_visible, is_visible, drop;                         *)
(*   "bg"  the thread spawned by with_options, which polls the owner       *)
(*         count and the visibility flag, redraws and sleeps.              *)
(* Every access to shared memory (the flag, the owner count, the data,     *)
(* the stderr lock, one write to stderr) is one step.  A write to stderr   *)
(* may fail; `.unwrap()` then panics the writing thread.  A panicking      *)
(* thread unwinds: it releases the stderr lock and drops what it owns      *)
(* (the handle owner is taken to own the handle on its stack, so its       *)
(* unwinding runs Drop for StatusLine; a panic raised while already        *)
(* unwinding aborts the process).                                          *)
(***************************************************************************)
EXTENDS Integers, Sequences, FiniteSets, TLC

\* Bounds of the exploration.
MaxCalls == 3   \* public calls (is_visible / refresh / set_visible) per handle
MaxLines == 3   \* lines of the snapshot's text

Threads == {"fg", "bg"}

VARIABLES
    visible,        \* State::visible (AtomicBool)
    data,           \* State::data, the caller's snapshot
    strong_count,   \* Arc::strong_count of the State
    options,        \* Options captured at construction
    pc,             \* position of each thread
    call,           \* the handle owner's current (or last returned) call
    contents,       \* redraw's local `contents`, per thread
    remaining,      \* redraw's remaining CursorPrevLine iterations, per thread
    stderr_lock,    \* holder of the StderrLock, or "none"
    out,            \* what the latest operation that wrote to stderr has written
    last_op,        \* the most recent redraw / clear performed on the terminal
    panicking,      \* the handle owner is unwinding from a panic
    aborted,        \* the process was aborted (panic while unwinding)
    \* history (ghost) variables
    ncalls,         \* number of public calls made so far
    last_set,       \* argument of the latest set_visible, else initially_visible
    called,         \* which of "show", "hide", "refresh" were ever called
    rendered,       \* some render has been written to the terminal
    bg_slept,       \* the background thread has completed a sleep
    last_transition, \* "hide" / "show": the latest returned flag transition
    iter,           \* the background loop's current iteration: flag loaded, rendered
    after_release   \* background sleeps / passed owner checks since the release

vars == <<visible, data, strong_count, options, pc, call, contents, remaining,
          stderr_lock, out, last_op, panicking, aborted, ncalls, last_set,
          called, rendered, bg_slept, last_transition, iter, after_release>>

----------------------------------------------------------------------------
\* The snapshot: a list of lines, each a string of characters.  Its Display
\* prints the lines separated by newline characters.

Line == {<<"a">>}

Snapshots == UNION {[1..n -> Line] : n \in 1..MaxLines}

RECURSIVE Display(_)
Display(d) ==
    IF Len(d) = 0 THEN <<>>
    ELSE IF Len(d) = 1 THEN d[1]
    ELSE d[1] \o <<"\n">> \o Display(Tail(d))

\* a count of lines where the count of newline characters is meant
line_count_Lines(s) == Len(SelectSeq(s, LAMBDA c : c = "\n")) + 1

\* contents.chars().filter(|c| *c == '\n').count()
RECURSIVE line_count(_)
line_count(s) ==
    IF Len(s) = 0 THEN 0
    ELSE (IF Head(s) = "\n" THEN 1 ELSE 0) + line_count(Tail(s))

\* The pieces written by write!(stderr, "{}{}{}", EraseDown, contents, CursorLeft)
RedrawPieces(c) == <<(<<"EraseDown">>), c, (<<"CursorLeft">>)>>

RECURSIVE Concat(_)
Concat(ss) == IF Len(ss) = 0 THEN <<>> ELSE Head(ss) \o Concat(Tail(ss))

\* a loop that counts its own reference as an owner
LoopCond_CountsItself(count) == count > 0

\* a loop that expects one owner more than there is
LoopCond_OneTooMany(count) == count > 2

\* while Arc::strong_count(&state_ref) > 1
LoopCond(count) == count > 1

\* a loop that sleeps before its first check
LoopEntry_SleepFirst == "sleep"

\* the spawned closure starts with the loop condition; the sleep ends the body
LoopEntry == "loop"

\* the store is missing: the flag keeps the value State::new gave it
InitialFlag_Placeholder(o) == FALSE

\* the value with_options stores into the flag
InitialFlag(o) == o.initially_visible

\* a load where the swap should be: the flag keeps its value
Swap_LoadOnly(new, old) == [stored |-> old, returned |-> old]

\* AtomicBool::swap(new): stores new, returns the previous value
Swap(new, old) == [stored |-> new, returned |-> old]

\* set_visible that does not compare with the previous value
SetVisibleEffect_Unconditional(v, was_visible) ==
    IF v THEN "redraw" ELSE "clear"

\* the branch set_visible takes after the swap
SetVisibleEffect(v, was_visible) ==
    IF ~v /\ was_visible THEN "clear"
    ELSE IF v /\ ~was_visible THEN "redraw"
    ELSE "none"

\* refresh that honours the flag, as the background loop does
RefreshEffect_IfVisible(v) == IF v THEN "redraw" ELSE "none"

\* refresh redraws whatever the flag is
RefreshEffect(v) == "redraw"

\* a background loop that redraws when the flag is false
LoopRedraws_Inverted(v) == ~v

\* a background loop that redraws whatever the flag is
LoopRedraws_Always(v) == TRUE

\* the background loop redraws when it loaded the flag as true
LoopRedraws(v) == v

\* a renderer that never takes the stderr lock
LockFree_NoLock(l) == TRUE

\* stderr.lock() returns once no other thread holds the lock
LockFree(l) == l = "none"

\* a redraw that ignores the option and always writes escape codes
RedrawBranch_AlwaysAnsi(ansi) == "redraw_write"

\* redraw: if ansi { .. } else { writeln!(..) }
RedrawBranch(ansi) == IF ansi THEN "redraw_write" ELSE "redraw_writeln"

\* a drop that clears exactly when the line is hidden
DropEffect_Inverted(v) == IF v THEN "none" ELSE "clear"

\* drop clears when is_visible() is true
DropEffect(v) == IF v THEN "clear" ELSE "none"

NoCall == [op |-> "none", arg |-> FALSE, before |-> FALSE, ops |-> <<>>]
NoOp == [kind |-> "none", by |-> "none"]
NoIter == [has_loaded |-> FALSE, loaded |-> FALSE, rendered |-> FALSE]

----------------------------------------------------------------------------
\* State::new(data): the flag starts as false, one owner, no thread yet.
Init ==
    /\ visible = FALSE
    /\ data \in Snapshots
    /\ strong_count = 1
    /\ options \in [initially_visible : BOOLEAN, enable_ansi_escapes : BOOLEAN]
    /\ pc = [t \in Threads |-> IF t = "fg" THEN "new" ELSE "unspawned"]
    /\ call = NoCall
    /\ contents = [t \in Threads |-> <<>>]
    /\ remaining = [t \in Threads |-> 0]
    /\ stderr_lock = "none"
    /\ out = <<>>
    /\ last_op = NoOp
    /\ panicking = FALSE
    /\ aborted = FALSE
    /\ ncalls = 0
    /\ last_set = options.initially_visible
    /\ called = {}
    /\ rendered = FALSE
    /\ bg_slept = FALSE
    /\ last_transition = "none"
    /\ iter = NoIter
    /\ after_release = [sleeps |-> 0, passes |-> 0]

bgh == <<iter, after_release>>
ghosts == <<ncalls, last_set, called, rendered, bg_slept, last_transition>>
term == <<contents, remaining, stderr_lock, out, last_op>>

\* where a thread continues when redraw / clear returns
Return(t) ==
    IF t = "bg" THEN "sleep"
    ELSE IF call.op = "drop" THEN "release" ELSE "idle"

\* the flag transition recorded when a call of the handle owner returns
TransitionAfter(t) ==
    IF t = "fg" /\ call.op = "set_visible" /\ call.before # call.arg
    THEN (IF call.arg THEN "show" ELSE "hide")
    ELSE last_transition

\* the pc at which an effect of a call starts
Enter(e, ret) ==
    IF e = "redraw" THEN "redraw_lock" ELSE IF e = "clear" THEN "clear" ELSE ret

At(t, p) == ~aborted /\ pc[t] = p

Goto(t, p) == pc' = [pc EXCEPT ![t] = p]

\* the handle exists and its owner can reach the snapshot through it
HandleLive == pc["fg"] \notin {"new", "stored", "dropped", "panicked"}

----------------------------------------------------------------------------
\* with_options, first half: state.visible.store(options.initially_visible)
WithOptionsStore ==
    /\ At("fg", "new")
    /\ visible' = InitialFlag(options)
    /\ Goto("fg", "stored")
    /\ UNCHANGED <<data, strong_count, options, call, term, panicking, aborted,
                   ghosts>>
    /\ UNCHANGED bgh

\* with_options, second half: state.clone(), thread::spawn, return the handle
WithOptionsSpawn ==
    /\ At("fg", "stored")
    /\ strong_count' = strong_count + 1
    /\ pc' = [pc EXCEPT !["fg"] = "idle", !["bg"] = LoopEntry]
    /\ UNCHANGED <<visible, data, options, call, term, panicking, aborted,
                   ghosts>>
    /\ UNCHANGED bgh

\* The caller changes its snapshot through Deref; never coordinated.
Mutate ==
    /\ ~aborted
    /\ HandleLive
    /\ \E d \in Snapshots \ {data} : data' = d
    /\ UNCHANGED <<visible, strong_count, options, pc, call, term, panicking,
                   aborted, ghosts>>
    /\ UNCHANGED bgh

\* is_visible(): one load of the flag
IsVisible ==
    /\ At("fg", "idle")
    /\ ncalls < MaxCalls
    /\ ncalls' = ncalls + 1
    /\ call' = [op |-> "is_visible", arg |-> FALSE, before |-> visible,
                ops |-> <<>>]
    /\ UNCHANGED <<visible, data, strong_count, options, pc, term, panicking,
                   aborted, last_set, called, rendered, bg_slept,
                   last_transition>>
    /\ UNCHANGED bgh

\* refresh(): calls redraw
Refresh ==
    /\ At("fg", "idle")
    /\ ncalls < MaxCalls
    /\ ncalls' = ncalls + 1
    /\ called' = called \cup {"refresh"}
    /\ call' = [op |-> "refresh", arg |-> FALSE, before |-> visible,
                ops |-> <<>>]
    /\ Goto("fg", Enter(RefreshEffect(visible), "idle"))
    /\ UNCHANGED <<visible, data, strong_count, options, term, panicking,
                   aborted, last_set, rendered, bg_slept, last_transition>>
    /\ UNCHANGED bgh

\* set_visible(v): the swap, and the choice of clear / redraw / nothing
SetVisible(v) ==
    /\ At("fg", "idle")
    /\ ncalls < MaxCalls
    /\ ncalls' = ncalls + 1
    /\ called' = called \cup {IF v THEN "show" ELSE "hide"}
    /\ last_set' = v
    /\ LET s == Swap(v, visible) IN
          /\ visible' = s.stored
          /\ call' = [op |-> "set_visible", arg |-> v, before |-> s.returned,
                      ops |-> <<>>]
          /\ Goto("fg", Enter(SetVisibleEffect(v, s.returned), "idle"))
    /\ UNCHANGED <<data, strong_count, options, term, panicking, aborted,
                   rendered, bg_slept, last_transition>>
    /\ UNCHANGED bgh

\* Drop::drop: is_visible(), then clear; also run when the owner unwinds
Drop ==
    /\ ~aborted
    /\ pc["fg"] \in {"idle", "unwind"}
    /\ call' = [op |-> "drop", arg |-> FALSE, before |-> visible, ops |-> <<>>]
    /\ Goto("fg", Enter(DropEffect(visible), "release"))
    /\ UNCHANGED <<visible, data, strong_count, options, term, panicking,
                   aborted, ghosts>>
    /\ UNCHANGED bgh

\* after drop(): the fields are dropped, the handle's Arc share is released
Release ==
    /\ At("fg", "release")
    /\ strong_count' = strong_count - 1
    /\ Goto("fg", IF panicking THEN "panicked" ELSE "dropped")
    /\ UNCHANGED <<visible, data, options, call, term, panicking, aborted,
                   ghosts>>
    /\ UNCHANGED bgh

----------------------------------------------------------------------------
\* A failed write: unwrap() panics thread t, which unwinds.
Panic(t) ==
    /\ stderr_lock' = "none"
    /\ contents' = [contents EXCEPT ![t] = <<>>]
    /\ remaining' = [remaining EXCEPT ![t] = 0]
    /\ IF t = "bg"
       THEN /\ Goto("bg", "panicked")
            /\ strong_count' = strong_count - 1
            /\ UNCHANGED <<panicking, aborted>>
       ELSE IF panicking
       THEN /\ aborted' = TRUE
            /\ UNCHANGED <<pc, strong_count, panicking>>
       ELSE /\ panicking' = TRUE
            /\ Goto("fg", IF call.op = "drop" THEN "release" ELSE "unwind")
            /\ UNCHANGED <<strong_count, aborted>>

\* the handle owner's record of the operations its call performed
Performed(t, kind) ==
    IF t = "fg" THEN [call EXCEPT !.ops = Append(@, kind)] ELSE call

\* redraw: let mut stderr = stderr.lock()
RedrawLock(t) ==
    /\ At(t, "redraw_lock")
    /\ LockFree(stderr_lock)
    /\ stderr_lock' = t
    /\ Goto(t, "redraw_format")
    /\ UNCHANGED <<visible, data, strong_count, options, call, contents,
                   remaining, out, last_op, panicking, aborted, ghosts>>
    /\ UNCHANGED bgh

\* redraw: let contents = format!("{}", state)
RedrawFormat(t) ==
    /\ At(t, "redraw_format")
    /\ contents' = [contents EXCEPT ![t] = Display(data)]
    /\ Goto(t, RedrawBranch(options.enable_ansi_escapes))
    /\ UNCHANGED <<visible, data, strong_count, options, call, remaining,
                   stderr_lock, out, last_op, panicking, aborted, ghosts>>
    /\ UNCHANGED bgh

\* redraw, ansi: write!(EraseDown, contents, CursorLeft).unwrap() succeeds
RedrawWrite(t) ==
    /\ At(t, "redraw_write")
    /\ out' = Concat(RedrawPieces(contents[t]))
    /\ remaining' = [remaining EXCEPT ![t] = line_count(contents[t])]
    /\ Goto(t, IF line_count(contents[t]) > 0 THEN "redraw_up"
               ELSE "redraw_ret")
    /\ last_op' = [kind |-> "render", by |-> t]
    /\ rendered' = TRUE
    /\ call' = Performed(t, "render")
    /\ UNCHANGED <<visible, data, strong_count, options, contents, stderr_lock,
                   panicking, aborted, ncalls, last_set, called, bg_slept,
                   last_transition>>
    /\ iter' = (IF t = "bg" THEN [iter EXCEPT !.rendered = TRUE] ELSE iter)
    /\ UNCHANGED after_release

\* redraw, ansi: the write fails after k of its three pieces
RedrawWriteFail(t) ==
    /\ At(t, "redraw_write")
    /\ \E k \in 0..2 :
          /\ out' = Concat(SubSeq(RedrawPieces(contents[t]), 1, k))
          /\ rendered' = (rendered \/ k = 2)
    /\ last_op' = [kind |-> "failed", by |-> t]
    /\ Panic(t)
    /\ UNCHANGED <<visible, data, options, call, ncalls, last_set, called,
                   bg_slept, last_transition>>
    /\ UNCHANGED bgh

\* redraw, ansi: one write!(CursorPrevLine).unwrap() of the loop succeeds
RedrawUp(t) ==
    /\ At(t, "redraw_up")
    /\ out' = Append(out, "CursorPrevLine")
    /\ remaining' = [remaining EXCEPT ![t] = @ - 1]
    /\ Goto(t, IF remaining[t] > 1 THEN "redraw_up" ELSE "redraw_ret")
    /\ UNCHANGED <<visible, data, strong_count, options, call, contents,
                   stderr_lock, last_op, panicking, aborted, ghosts>>
    /\ UNCHANGED bgh

\* redraw, ansi: one write of the loop fails
RedrawUpFail(t) ==
    /\ At(t, "redraw_up")
    /\ last_op' = [kind |-> "failed", by |-> t]
    /\ Panic(t)
    /\ UNCHANGED <<visible, data, options, call, out, ghosts>>
    /\ UNCHANGED bgh

\* redraw, no ansi: writeln!(contents).unwrap() succeeds
RedrawWriteln(t) ==
    /\ At(t, "redraw_writeln")
    /\ out' = contents[t] \o <<"\n">>
    /\ Goto(t, "redraw_ret")
    /\ last_op' = [kind |-> "render", by |-> t]
    /\ rendered' = TRUE
    /\ call' = Performed(t, "render")
    /\ UNCHANGED <<visible, data, strong_count, options, contents, remaining,
                   stderr_lock, panicking, aborted, ncalls, last_set, called,
                   bg_slept, last_transition>>
    /\ iter' = (IF t = "bg" THEN [iter EXCEPT !.rendered = TRUE] ELSE iter)
    /\ UNCHANGED after_release

\* redraw, no ansi: the write fails, after the text or before it
RedrawWritelnFail(t) ==
    /\ At(t, "redraw_writeln")
    /\ \E k \in 0..1 :
          /\ out' = (IF k = 1 THEN contents[t] ELSE <<>>)
          /\ rendered' = (rendered \/ k = 1)
    /\ last_op' = [kind |-> "failed", by |-> t]
    /\ Panic(t)
    /\ UNCHANGED <<visible, data, options, call, ncalls, last_set, called,
                   bg_slept, last_transition>>
    /\ UNCHANGED bgh

\* redraw returns: the StderrLock guard is dropped
RedrawRet(t) ==
    /\ At(t, "redraw_ret")
    /\ stderr_lock' = "none"
    /\ contents' = [contents EXCEPT ![t] = <<>>]
    /\ Goto(t, Return(t))
    /\ last_transition' = TransitionAfter(t)
    /\ UNCHANGED <<visible, data, strong_count, options, call, remaining, out,
                   last_op, panicking, aborted, ncalls, last_set, called,
                   rendered, bg_slept>>
    /\ UNCHANGED bgh

\* clear, ansi: let mut stderr = stderr.lock()
ClearLock(t) ==
    /\ At(t, "clear")
    /\ options.enable_ansi_escapes
    /\ LockFree(stderr_lock)
    /\ stderr_lock' = t
    /\ Goto(t, "clear_write")
    /\ UNCHANGED <<visible, data, strong_count, options, call, contents,
                   remaining, out, last_op, panicking, aborted, ghosts>>
    /\ UNCHANGED bgh

\* clear, ansi: write!(EraseDown).unwrap() succeeds
ClearWrite(t) ==
    /\ At(t, "clear_write")
    /\ out' = <<"EraseDown">>
    /\ last_op' = [kind |-> "erase", by |-> t]
    /\ call' = Performed(t, "erase")
    /\ Goto(t, "clear_ret")
    /\ UNCHANGED <<visible, data, strong_count, options, contents, remaining,
                   stderr_lock, panicking, aborted, ghosts>>
    /\ UNCHANGED bgh

\* clear, ansi: the write fails
ClearWriteFail(t) ==
    /\ At(t, "clear_write")
    /\ out' = <<>>
    /\ last_op' = [kind |-> "failed", by |-> t]
    /\ Panic(t)
    /\ UNCHANGED <<visible, data, options, call, ghosts>>
    /\ UNCHANGED bgh

\* clear, ansi, returns: the StderrLock guard is dropped
ClearRet(t) ==
    /\ At(t, "clear_ret")
    /\ stderr_lock' = "none"
    /\ Goto(t, Return(t))
    /\ last_transition' = TransitionAfter(t)
    /\ UNCHANGED <<visible, data, strong_count, options, call, contents,
                   remaining, out, last_op, panicking, aborted, ncalls,
                   last_set, called, rendered, bg_slept>>
    /\ UNCHANGED bgh

\* clear, no ansi: nothing is written
ClearNoAnsi(t) ==
    /\ At(t, "clear")
    /\ ~options.enable_ansi_escapes
    /\ last_op' = [kind |-> "erase", by |-> t]
    /\ call' = Performed(t, "erase")
    /\ Goto(t, Return(t))
    /\ last_transition' = TransitionAfter(t)
    /\ UNCHANGED <<out, visible, data, strong_count, options, contents, remaining,
                   stderr_lock, panicking, aborted, ncalls, last_set, called,
                   rendered, bg_slept>>
    /\ UNCHANGED bgh

----------------------------------------------------------------------------
\* background loop: while Arc::strong_count(&state_ref) > 1
BgCheck ==
    /\ At("bg", "loop")
    /\ IF LoopCond(strong_count)
       THEN Goto("bg", "load") /\ UNCHANGED strong_count
       ELSE Goto("bg", "done") /\ strong_count' = strong_count - 1
    /\ UNCHANGED <<visible, data, options, call, term, panicking, aborted,
                   ghosts>>
    /\ iter' = (IF LoopCond(strong_count) THEN NoIter ELSE iter)
    /\ after_release' = (IF LoopCond(strong_count)
                             /\ pc["fg"] \in {"dropped", "panicked"}
                          THEN [after_release EXCEPT
                                   !.passes = IF @ < 2 THEN @ + 1 ELSE @]
                          ELSE after_release)

\* background loop: if state_ref.visible.load(Acquire) { redraw(..) }
BgLoad ==
    /\ At("bg", "load")
    /\ Goto("bg", IF LoopRedraws(visible) THEN "redraw_lock" ELSE "sleep")
    /\ UNCHANGED <<visible, data, strong_count, options, call, term, panicking,
                   aborted, ghosts>>
    /\ iter' = [iter EXCEPT !.has_loaded = TRUE, !.loaded = visible]
    /\ UNCHANGED after_release

\* background loop: thread::sleep(options.refresh_period)
BgSleep ==
    /\ At("bg", "sleep")
    /\ Goto("bg", "loop")
    /\ bg_slept' = TRUE
    /\ UNCHANGED <<visible, data, strong_count, options, call, term, panicking,
                   aborted, ncalls, last_set, called, rendered, last_transition>>
    /\ after_release' = (IF pc["fg"] \in {"dropped", "panicked"}
                          THEN [after_release EXCEPT
                                   !.sleeps = IF @ < 2 THEN @ + 1 ELSE @]
                          ELSE after_release)
    /\ UNCHANGED iter

Renderer(t) ==
    \/ RedrawLock(t) \/ RedrawFormat(t) \/ RedrawWrite(t) \/ RedrawWriteFail(t)
    \/ RedrawUp(t) \/ RedrawUpFail(t) \/ RedrawWriteln(t)
    \/ RedrawWritelnFail(t) \/ RedrawRet(t)
    \/ ClearLock(t) \/ ClearWrite(t) \/ ClearWriteFail(t) \/ ClearRet(t)
    \/ ClearNoAnsi(t)

BgNext == BgCheck \/ BgLoad \/ BgSleep \/ Renderer("bg")

FgNext ==
    \/ WithOptionsStore \/ WithOptionsSpawn \/ IsVisible \/ Refresh
    \/ \E v \in BOOLEAN : SetVisible(v)
    \/ Drop \/ Release \/ Renderer("fg")

Next == FgNext \/ BgNext \/ Mutate

Spec == Init /\ [][Next]_vars

\* The scheduler runs the background thread; its sleeps and writes complete.
FairSpec == Spec /\ WF_vars(BgNext)

TypeOK ==
    /\ visible \in BOOLEAN
    /\ data \in Snapshots
    /\ strong_count \in 0..2
    /\ pc \in [Threads -> STRING]
    /\ stderr_lock \in Threads \cup {"none"}
    /\ ncalls \in 0..MaxCalls
    /\ called \subseteq {"show", "hide", "refresh"}

----------------------------------------------------------------------------
\* Shorthands of the properties

Released == pc["fg"] \in {"dropped", "panicked"}
Returned(op) == pc["fg"] = "idle" /\ call.op = op
NoWriteFailed == ~panicking /\ ~aborted /\ pc["bg"] # "panicked"

\* C1: once the handle exists the flag is the argument of the most recent
\* set_visible call, or initially_visible when there was none, whatever
\* refresh, is_visible, drop and the background thread did in between; and
\* is_visible() returns that value.
C1_FlagIsLastSet ==
    /\ pc["fg"] # "new" => visible = last_set
    /\ call.op = "is_visible" => call.before = last_set

C1_Witness ==
    /\ Returned("is_visible")
    /\ {"show", "hide"} \subseteq called
    /\ call.before = last_set
    /\ last_set # options.initially_visible
    /\ rendered /\ bg_slept

\* C2: a returned set_visible(v) that swapped out the value w has performed
\* exactly one erase if w and not v, exactly one render if v and not w, and
\* no terminal operation at all if w = v.
C2_SetVisibleOps ==
    Returned("set_visible") =>
        call.ops = (IF call.before = call.arg THEN <<>>
                    ELSE IF call.arg THEN <<"render">> ELSE <<"erase">>)

\* a second consecutive set_visible(false) has returned
C2_Witness ==
    /\ Returned("set_visible")
    /\ ~call.arg /\ ~call.before
    /\ last_transition = "hide"
    /\ call.ops = <<>>

\* C3: when a handle that was visible has been dropped (and no write failed),
\* drop performed an erase and that erase is the latest terminal operation.
C3_DropEraseIsLast ==
    (pc["fg"] = "dropped" /\ call.before /\ NoWriteFailed) =>
        /\ call.ops = <<"erase">>
        /\ last_op = [kind |-> "erase", by |-> "fg"]

\* C4: with no refresh call, after a set_visible(false) that made the
\* Visible -> Hidden transition has returned and while the flag is false, the
\* erase is the latest terminal operation (no write having failed).
C4_HiddenStaysErased ==
    ("refresh" \notin called /\ last_transition = "hide" /\ ~visible
        /\ NoWriteFailed) =>
        last_op.kind = "erase"

\* C5: a returned refresh() has performed exactly one render, whatever the
\* flag was, and the flag is what it was when refresh was called.
C5_RefreshRendersOnce ==
    Returned("refresh") =>
        /\ call.ops = <<"render">>
        /\ visible = call.before

C5_Witness ==
    /\ Returned("refresh")
    /\ ~call.before /\ ~visible
    /\ call.ops = <<"render">>
    /\ last_op = [kind |-> "render", by |-> "fg"]

\* C6: under fair scheduling of the background thread, once the handle's share
\* of the State is released the background thread eventually terminates.
C6_BgTerminates == Released ~> (pc["bg"] \in {"done", "panicked"})

C6_Witness == pc["fg"] = "dropped" /\ pc["bg"] = "done" /\ bg_slept

\* C7: the background thread has left its loop only if the handle's share of
\* the State was released.
C7_ExitsOnlyAfterRelease == pc["bg"] = "done" => Released

C7_Witness ==
    /\ pc["bg"] = "done" /\ pc["fg"] = "dropped"
    /\ ~visible /\ bg_slept /\ ncalls = MaxCalls

\* C8: for a handle built with initially_visible = false, as long as neither
\* set_visible(true) nor refresh() was called, the flag is false, is_visible()
\* returned false and no render was written.
C8_InitiallyHidden ==
    (~options.initially_visible /\ called \cap {"show", "refresh"} = {}) =>
        /\ ~visible
        /\ call.op = "is_visible" => ~call.before
        /\ ~rendered

C8_Witness ==
    /\ ~options.initially_visible /\ called \cap {"show", "refresh"} = {}
    /\ Returned("is_visible")
    /\ bg_slept /\ pc["bg"] = "sleep"
    /\ ~rendered

\* C9 as claimed: with initially_visible = true and no refresh / set_visible
\* call, a render is written only after the background thread has slept once.
C9_FirstRenderAfterSleep ==
    (options.initially_visible /\ called = {} /\ rendered) => bg_slept

\* C9 as amended: with initially_visible = true and no refresh / set_visible
\* call, the first render is written while the background thread has not yet
\* completed any sleep.
C9_FirstRenderBeforeSleep ==
    [][(options.initially_visible /\ called = {} /\ ~rendered /\ rendered')
        => ~bg_slept]_vars

C9_Witness ==
    /\ options.initially_visible /\ called = {}
    /\ rendered /\ ~bg_slept
    /\ last_op = [kind |-> "render", by |-> "bg"]

\* C10: with initially_visible = true and no refresh / set_visible call, when
\* the background thread reaches its first sleep (so the handle was alive at
\* its first owner check) the status has been rendered.
C10_ShownImmediately ==
    (options.initially_visible /\ called = {} /\ pc["bg"] = "sleep"
        /\ ~bg_slept) => rendered

C10_Witness ==
    /\ options.initially_visible /\ called = {}
    /\ pc["bg"] = "sleep" /\ ~bg_slept /\ pc["fg"] = "idle"
    /\ rendered /\ out # <<>>

----------------------------------------------------------------------------
\* Shorthands of the properties about the terminal

InSection(t) ==
    pc[t] \in {"redraw_format", "redraw_write", "redraw_writeln", "redraw_up",
               "redraw_ret", "clear_write", "clear_ret"}

Newlines(s) == Len(SelectSeq(s, LAMBDA c : c = "\n"))
Ups(n) == [i \in 1..n |-> "CursorPrevLine"]
EscapeCodes == {"EraseDown", "CursorLeft", "CursorPrevLine"}

\* rows the cursor went down by the output o: one per newline, minus one per
\* CursorPrevLine
RowDelta(o) ==
    Newlines(o) - Len(SelectSeq(o, LAMBDA c : c = "CursorPrevLine"))

\* what one complete render of the text c writes with escape codes enabled
FullRender(c) == <<"EraseDown">> \o c \o <<"CursorLeft">> \o Ups(Newlines(c))

WriteFailed == panicking \/ aborted \/ pc["bg"] = "panicked"

\* C11: at most one thread is between taking the stderr lock and returning
\* from redraw / clear, and what a thread in the middle of its render or erase
\* finds written is its own output only: its text and the cursor-up sequences
\* it has written so far, with nothing of another operation in between.
C11_OneWriterAtATime ==
    /\ Cardinality({t \in Threads : InSection(t)}) <= 1
    /\ \A t \in Threads :
          /\ (pc[t] \in {"redraw_up", "redraw_ret"}
                 /\ options.enable_ansi_escapes) =>
                out = <<"EraseDown">> \o contents[t] \o <<"CursorLeft">>
                        \o Ups(Newlines(contents[t]) - remaining[t])
          /\ (pc[t] = "redraw_ret" /\ ~options.enable_ansi_escapes) =>
                out = contents[t] \o <<"\n">>
          /\ pc[t] = "clear_ret" => out = <<"EraseDown">>

\* the handle owner waits for the lock while the background render is between
\* its first write and its cursor-up writes
C11_Witness ==
    /\ pc["bg"] = "redraw_up" /\ remaining["bg"] > 0
    /\ pc["fg"] \in {"redraw_lock", "clear"}
    /\ options.enable_ansi_escapes
    /\ stderr_lock = "bg"

\* C12: once a terminal write has failed, in whichever thread, the process
\* has stopped: the handle owner makes no further public call.
C12_FailureStopsProcess ==
    [][WriteFailed => ncalls' = ncalls]_vars

\* C13: with escape codes disabled no erase or cursor sequence is ever
\* written, a render writes exactly the text of a snapshot followed by one
\* newline, and an erase writes nothing: it leaves the output as it was.
C13_NoAnsiAppendOnly ==
    /\ [](~options.enable_ansi_escapes =>
            /\ \A i \in 1..Len(out) : out[i] \notin EscapeCodes
            /\ last_op.kind = "render" =>
                  \E d \in Snapshots : out = Display(d) \o <<"\n">>
            /\ \A t \in Threads :
                  pc[t] = "redraw_ret" => out = contents[t] \o <<"\n">>)
    /\ [][(~options.enable_ansi_escapes /\ last_op'.kind = "erase") =>
             out' = out]_vars

\* an erase after a render, escape codes disabled
C13_Witness ==
    /\ ~options.enable_ansi_escapes
    /\ rendered
    /\ last_op = [kind |-> "erase", by |-> "fg"]
    /\ call.op = "set_visible" /\ call.ops = <<"erase">>
    /\ \E d \in Snapshots : out = Display(d) \o <<"\n">>

\* C14: when the background thread is the sole owner of the State (or has
\* left its loop) and the handle owner did not panic, drop has performed
\* exactly one erase if the flag was true at disposal and nothing if it was
\* false: the erase is complete before the handle's share is released.
C14_DropErasesBeforeRelease ==
    ((pc["bg"] = "done"
         \/ (pc["bg"] \notin {"unspawned", "panicked"} /\ strong_count = 1)
         \/ pc["fg"] \in {"release", "dropped"})
        /\ ~panicking) =>
        /\ call.op = "drop"
        /\ call.ops = (IF call.before THEN <<"erase">> ELSE <<>>)

C14_Witness ==
    /\ pc["bg"] = "loop" /\ strong_count = 1 /\ pc["fg"] = "dropped"
    /\ call.before /\ call.ops = <<"erase">>
    /\ options.enable_ansi_escapes

\* C15: a background iteration is inside redraw only after loading the flag
\* as true, and reaches its sleep having rendered exactly if it loaded true;
\* the value an iteration loads is the argument of the latest set_visible
\* (initially_visible if there was none), so after set_visible(true) and
\* before a later set_visible(false) it loads true.
C15_BgRendersIffLoadedTrue ==
    /\ [](/\ pc["bg"] \in {"redraw_lock", "redraw_format", "redraw_write",
                           "redraw_writeln", "redraw_up", "redraw_ret"} =>
                (iter.has_loaded /\ iter.loaded)
          /\ pc["bg"] = "sleep" =>
                (iter.has_loaded /\ iter.rendered = iter.loaded))
    /\ [][(pc["bg"] = "load" /\ pc'["bg"] # "load") =>
             (iter'.has_loaded /\ iter'.loaded = last_set)]_vars

\* after a returned set_visible(true) an iteration has loaded true and rendered
C15_Witness ==
    /\ last_transition = "show" /\ visible
    /\ ~options.initially_visible
    /\ pc["bg"] = "sleep" /\ bg_slept
    /\ iter.loaded /\ iter.rendered
    /\ last_op = [kind |-> "render", by |-> "bg"]

\* C16: after the handle's share is released the background thread sleeps at
\* most once more and never passes its loop condition again.
C16_ShutdownWithinOneTick ==
    /\ after_release.sleeps <= 1
    /\ after_release.passes = 0

C16_Witness ==
    /\ pc["bg"] = "done" /\ pc["fg"] = "dropped"
    /\ after_release.sleeps = 1

\* C17: with escape codes enabled, a complete render of a text with n newline
\* characters has written EraseDown, the text, CursorLeft and then exactly n
\* CursorPrevLine, so the cursor is back on the row where the render started.
C17_RenderSequence ==
    \A t \in Threads :
        (options.enable_ansi_escapes /\ pc[t] = "redraw_ret") =>
            /\ \E d \in Snapshots : contents[t] = Display(d)
            /\ out = FullRender(contents[t])
            /\ RowDelta(out) = 0

C17_Witness ==
    /\ options.enable_ansi_escapes
    /\ pc["bg"] = "redraw_ret"
    /\ Newlines(contents["bg"]) = MaxLines - 1
    /\ Len(out) = 3 * MaxLines

\* C18: with escape codes enabled and the flag false all along, when a handle
\* on which refresh() rendered has been dropped (no write having failed), the
\* latest terminal operation is an erase.
C18_RefreshedLineErased ==
    (options.enable_ansi_escapes /\ ~options.initially_visible
        /\ "show" \notin called /\ "refresh" \in called
        /\ pc["fg"] = "dropped" /\ ~WriteFailed) =>
        last_op.kind = "erase"

\* C19: the background thread exists only once the flag holds
\* initially_visible, and, absent set_visible calls, the value an iteration
\* loaded is initially_visible, never the placeholder of State::new.
C19_StoreBeforeSpawn ==
    /\ pc["bg"] # "unspawned" => pc["fg"] # "new"
    /\ (iter.has_loaded /\ called \cap {"show", "hide"} = {}) =>
          iter.loaded = options.initially_visible

C19_Witness ==
    /\ options.initially_visible
    /\ called = {}
    /\ iter.has_loaded /\ iter.loaded
    /\ ~bg_slept /\ pc["bg"] = "redraw_lock"
====
